---- MODULE Spec2Model ----
(***************************************************************************)
(* The ingestion pipeline of modules/ingestion: KafkaProducer (producer/   *)
(* kafka_producer.go) driven by cmd/producer/main.go.  One run of main is  *)
(* modelled: the workers of SendDetectionBatch / StreamFromChannel, the    *)
(* delivery-report collector, the broker client (Produce, delivery events, *)
(* Flush), the CSV source goroutine of streaming mode, the final report,   *)
(* and Close, run by main's defer and by the signal handler.               *)
(***************************************************************************)
EXTENDS Integers, Sequences, FiniteSets, TLC

\* Bounds of the model.
MaxRecords == 3
MaxWorkers == 2
MaxIds == 2
MaxRows == 2
MaxOtherEvents == 1

\* Program constants.
maxRetries == 5
baseBackoff == 100
deliveryChanCap == 10000
detectionChanCap == 1000

\* What kafka.Producer.Produce can return: nil ("ok"), a kafka.Error with
\* IsRetriable() ("retriable"), a kafka.Error without ("fatal"), or an error
\* that is not a kafka.Error ("other").
ProduceErrors == {"retriable", "fatal", "other"}
ProduceOutcomes == {"ok"} \cup ProduceErrors

\* The two parties that run Close: main's defer and the signal goroutine.
Closers == {"main", "sig"}

VARIABLES
    batchMode,       \* the -batch flag
    nRecords,        \* number of detections the CSV source yields
    workerCount,     \* the -workers flag
    mainPc,          \* position of main
    closePc,         \* position of each party inside Close
    exited,          \* the process has ended (main returned, or os.Exit)
    ctxDone,         \* kp.ctx is cancelled
    jobs,            \* jobs channel (batch) / detectionChan (stream)
    jobsClosed,      \* that channel is closed
    srcNext,         \* next row the streaming source will push (0: not started)
    wpc,             \* position of each worker goroutine
    wrec,            \* the detection a worker holds
    attempt,         \* SendDetection's loop variable
    lastErr,         \* SendDetection's lastErr
    errors,          \* number of errors buffered in the errors channel
    runErr,          \* what SendDetectionBatch / StreamFromChannel returned
    outq,            \* the client's queue: accepted messages awaiting their report
    deliveryChan,    \* kp.deliveryChan
    collector,       \* state of the handleDeliveryReports goroutine
    started,         \* handleDeliveryReports goroutines started so far
    ignored,         \* events the collector skipped as not being messages
    messagesSent,
    messagesAcked,
    messagesFailed,
    flushRemaining,  \* what producer.Flush returned, per Flush call site (-1: not yet)
    producerCloses,  \* number of producer.Close() calls executed
    gm,              \* GetMetrics: number of loads done, per running call
    snap,            \* GetMetrics: the map being built / last returned, per call site
    rejected,        \* some Produce call has returned an error (history)
    call,            \* per worker: its current SendDetection call (message, history)
    hist,            \* per detection: what happened to it (history)
    detections,      \* the detections handed to the pool, by position
    csv,             \* the CSV file and the state of the ReadAll call on it
    rt               \* a detection and the state of its ToJSON / FromJSON round trip

vars == <<batchMode, nRecords, workerCount, mainPc, closePc, exited, ctxDone,
          jobs, jobsClosed, srcNext, wpc, wrec, attempt, lastErr, errors, runErr,
          outq, deliveryChan, collector, started, ignored, messagesSent,
          messagesAcked,
          messagesFailed, flushRemaining, producerCloses, gm, snap, rejected,
          call, hist, detections, csv, rt>>

Records == 1..nRecords
Workers == 1..workerCount

\* An Add that subtracts.
AddNegated(counter, delta) == counter - delta

\* atomic.Int64.Add(delta) on a counter: the counter's new value.
Add(counter, delta) == counter + delta

RECURSIVE Pow2(_)
Pow2(n) == IF n <= 0 THEN 1 ELSE 2 * Pow2(n - 1)

\* A backoff shifted by attempt instead of attempt-1.
BackoffFromAttempt(a) == baseBackoff * Pow2(a)

\* A backoff that grows linearly instead of doubling.
BackoffLinear(a) == baseBackoff * a

\* backoff := kp.baseBackoff * time.Duration(1<<uint(attempt-1))
Backoff(a) == baseBackoff * Pow2(a - 1)

\* Detection ids (uuid strings in the program).
FreshIDs == <<"det-1", "det-2", "det-3", "det-4", "det-5", "det-6", "det-7",
              "det-8">>

\* The detection parseRow builds for the r-th valid row: a fresh id, the
\* reader's vehicle and session id, the row's class name.
ReaderDetection(r) ==
    [DetectionID |-> FreshIDs[r],
     VehicleID |-> "vehicle-001",
     SessionID |-> "session-001",
     ClassName |-> IF r % 2 = 1 THEN "stop sign" ELSE "traffic light"]

\* Detections a caller of the producer may submit: ids may repeat.
SubmittedDetections ==
    [DetectionID : {FreshIDs[i] : i \in 1..MaxIds},
     VehicleID : {"vehicle-001"},
     SessionID : {"session-001"},
     ClassName : {"stop sign", "traffic light"}]

\* float64 NaN, which strconv.ParseFloat returns for "NaN"; no other float of
\* the model has this value.
NaN == -1

\* The detection parseRow builds for the r-th valid row when the row's
\* confidence field parses to c.
ReaderDetectionWith(r, c) ==
    [DetectionID |-> FreshIDs[r],
     VehicleID |-> "vehicle-001",
     SessionID |-> "session-001",
     ClassName |-> IF r % 2 = 1 THEN "stop sign" ELSE "traffic light",
     Confidence |-> c]

\* The float64 fields of the Detection struct.
FloatFields == {"TimestampSec", "PixelU", "PixelV", "Confidence"}

\* A marshaller that writes any float.
ToJSONNeverFails(d) == FALSE

\* Whether detection.ToJSON() returns an error: json.Marshal rejects a float
\* that is NaN.
ToJSONFails(d) == \E f \in DOMAIN d \cap FloatFields : d[f] = NaN

\* The fields of the Detection struct and their json tags.
JsonName ==
    [DetectionID |-> "detection_id", VehicleID |-> "vehicle_id",
     SessionID |-> "session_id", IngestedAt |-> "ingested_at",
     FrameNumber |-> "frame_number", TimestampSec |-> "timestamp_sec",
     PixelU |-> "pixel_u", PixelV |-> "pixel_v", Confidence |-> "confidence",
     ClassName |-> "class_name", VehicleLat |-> "vehicle_lat",
     VehicleLon |-> "vehicle_lon",
     RecordingTimestamp |-> "recording_timestamp",
     ObjectLat |-> "object_lat", ObjectLon |-> "object_lon",
     Distance |-> "distance", ROIImagePath |-> "roi_image_path"]

\* The pointer fields, tagged omitempty: nil is <<>>, a pointer to v is <<v>>.
OmitEmpty == {"VehicleLat", "VehicleLon", "RecordingTimestamp", "ObjectLat",
              "ObjectLon", "Distance", "ROIImagePath"}

StringFields == {"DetectionID", "VehicleID", "SessionID", "ClassName"}

\* The zero value json.Unmarshal leaves in a field the document lacks.
ZeroValue(f) ==
    IF f \in OmitEmpty THEN <<>>
    ELSE IF f \in StringFields THEN ""
    ELSE IF f = "IngestedAt" THEN [wall |-> 0, mono |-> 0]
    ELSE 0

\* Whether json.Marshal leaves field f with value v out of the document:
\* omitempty drops a nil pointer, and only that.
Omitted(f, v) == f \in OmitEmpty /\ v = <<>>

\* The JSON value of field f: a pointer gives what it points to, a time.Time
\* its wall-clock instant (the monotonic reading is not written).
Encode(f, v) ==
    IF f \in OmitEmpty THEN v[1]
    ELSE IF f = "IngestedAt" THEN v.wall
    ELSE v

\* The field value json.Unmarshal builds from the JSON value x.
Decode(f, x) ==
    IF f \in OmitEmpty THEN <<x>>
    ELSE IF f = "IngestedAt" THEN [wall |-> x, mono |-> 0]
    ELSE x

\* detection.ToJSON(): json.Marshal(d), the document as a map from json names
\* to values, over the fields the detection carries.
ToJSON(d) ==
    LET present == {f \in DOMAIN d : ~Omitted(f, d[f])}
        field(n) == CHOOSE f \in present : JsonName[f] = n
    IN [n \in {JsonName[f] : f \in present} |-> Encode(field(n), d[field(n)])]

\* FromJSON(data): json.Unmarshal into a zero Detection.
FromJSON(data) ==
    [f \in DOMAIN JsonName |->
        IF JsonName[f] \in DOMAIN data THEN Decode(f, data[JsonName[f]])
        ELSE ZeroValue(f)]

\* The detections the round trip is tried on: required fields zero or not,
\* optional GPS fields nil, set, or set to a zero value.
JsonDetections ==
    [DetectionID : {"test-123", ""}, VehicleID : {"vehicle-001"},
     SessionID : {"session-001"}, IngestedAt : {[wall |-> 1, mono |-> 7]},
     FrameNumber : {75, 0}, TimestampSec : {25000, 0},
     PixelU : {17372800}, PixelV : {6300600}, Confidence : {5249},
     ClassName : {"stop sign", ""},
     VehicleLat : {<<>>, <<437900>>, <<0>>},
     VehicleLon : {<<>>, <<-793140>>},
     RecordingTimestamp : {<<>>, <<"2024-01-01T00:00:00Z">>, <<"">>},
     ObjectLat : {<<>>}, ObjectLon : {<<>>}, Distance : {<<>>},
     ROIImagePath : {<<>>}]

\* No round trip in progress.
NoRoundTrip == [pc |-> "idle", d |-> <<>>, data |-> <<>>, parsed |-> <<>>,
                err |-> "none"]

\* A message keyed by the session instead of the detection.
KeyOfSession(d) == d.SessionID

\* Key: []byte(detection.DetectionID)
KeyOf(d) == d.DetectionID

\* Headers with the vehicle and the session id exchanged.
HeadersSwapped(d) ==
    << [Key |-> "vehicle_id", Value |-> d.SessionID],
       [Key |-> "session_id", Value |-> d.VehicleID],
       [Key |-> "class_name", Value |-> d.ClassName] >>

\* Headers: []kafka.Header{...}
Headers(d) ==
    << [Key |-> "vehicle_id", Value |-> d.VehicleID],
       [Key |-> "session_id", Value |-> d.SessionID],
       [Key |-> "class_name", Value |-> d.ClassName] >>

\* message := &kafka.Message{...}, built once before the retry loop.
Message(d) == [Key |-> KeyOf(d), Value |-> ToJSON(d), Headers |-> Headers(d)]

NoMessage == [Key |-> "", Value |-> <<>>, Headers |-> <<>>]

\* History of one detection: times pulled, times Produce accepted it, the last
\* Produce outcome, SendDetection's result, its share of each counter, the
\* number of delivery events emitted for it and the last one's result, and the
\* message the broker client accepted for it.
NoHist == [pulls |-> 0, accepts |-> 0, last |-> "none", ret |-> "none",
           sentBy |-> 0, failedBy |-> 0, ackedBy |-> 0, events |-> 0,
           delivery |-> "none", msg |-> NoMessage]

\* One SendDetection call: its local message, and its history: Produce calls
\* made, how many failed with a retriable kafka.Error, with a non-kafka error,
\* with a non-retriable kafka.Error, the number of backoff sleeps and their
\* total (ms), the sleep that came before the latest Produce (ms), the message
\* last handed to Produce and whether every Produce of the call was handed the
\* same one.
NoCall == [calls |-> 0, transient |-> 0, others |-> 0, fatal |-> 0,
           sleeps |-> 0, slept |-> 0, delay |-> 0, message |-> NoMessage,
           handed |-> NoMessage, same |-> TRUE]

NoSnap == [messages_sent |-> 0, messages_acked |-> 0, messages_failed |-> 0,
           messages_pending |-> 0]

\* The call sites of GetMetrics whose result is kept: the LogMetrics of main's
\* final report (main.go:117) and the LogMetrics of each party's Close.  (The
\* second snapshot of main.go:119 only feeds the throughput and success-rate
\* lines and is not modelled.)
Sites == {"report"} \cup Closers

\* The call sites of Flush: main.go:87/108 ("run") and each party's Close.
FlushSites == {"run"} \cup Closers

----------------------------------------------------------------------------
(* CSVReader *)

\* strconv.Atoi on the field values that occur: an integer, or an error.
AtoiTable == "75" :> 75 @@ "206" :> 206
AtoiOk(str) == str \in DOMAIN AtoiTable
Atoi(str) == AtoiTable[str]

\* strconv.ParseFloat(s, 64) on the field values that occur, in units of
\* 1/10000: a number, or an error.
ParseFloatTable ==
    "75" :> 750000 @@ "2.500" :> 25000 @@ "1737.28" :> 17372800 @@
    "630.06" :> 6300600 @@ "0.5249" :> 5249 @@ "0.6323" :> 6323 @@
    "206" :> 2060000
ParseFloatOk(str) == str \in DOMAIN ParseFloatTable
ParseFloat(str) == ParseFloatTable[str]

\* The header layouts: centroid columns u/v, bounding-box columns, neither.
Headers3 == {"uv", "bbox", "none"}

\* The rows csv.Reader can return under each header: a record of fields, one
\* per column of the header.
RowsOf(header) ==
    CASE header = "uv" ->
           [frame_number : {"75", "206", "2.500"},
            timestamp_sec : {"2.500", "INVALID"},
            u : {"1737.28", "INVALID"}, v : {"630.06"},
            confidence : {"0.5249", "0.6323"},
            class_name : {"stop sign", "traffic light"}]
      [] header = "bbox" ->
           [frame_number : {"75", "INVALID"}, timestamp_sec : {"2.500"},
            bbox_x1 : {"1737.28", "INVALID"}, bbox_y1 : {"630.06"},
            bbox_x2 : {"1737.28"}, bbox_y2 : {"630.06", "INVALID"},
            confidence : {"0.5249"}, class_name : {"stop sign"}]
      [] OTHER ->
           [frame_number : {"75", "INVALID"},
            timestamp_sec : {"2.500", "INVALID"},
            confidence : {"0.5249", "INVALID"},
            class_name : {"traffic light"}]

\* What reader.Read() yields for a line: a row, or an error that is not EOF
\* (wrong number of fields, a stray quote).
LinesOf(header) ==
    [err : {FALSE}, row : RowsOf(header)] \cup {[err |-> TRUE, row |-> <<>>]}

RECURSIVE SeqsUpTo(_, _)
SeqsUpTo(S, n) ==
    IF n = 0 THEN {<<>>}
    ELSE LET shorter == SeqsUpTo(S, n - 1)
         IN shorter \cup {Append(q, x) : q \in shorter, x \in S}

\* The files with a readable header.
CsvFiles ==
    UNION {[header : {h}, lines : SeqsUpTo(LinesOf(h), MaxRows)] : h \in Headers3}

\* Whether parseRow returns a detection for the row (every conversion it
\* makes succeeds), in the order of its checks.
ParseRowOk(row, header) ==
    /\ AtoiOk(row.frame_number)
    /\ ParseFloatOk(row.timestamp_sec)
    /\ CASE header = "uv" -> ParseFloatOk(row.u) /\ ParseFloatOk(row.v)
         [] header = "bbox" ->
               /\ ParseFloatOk(row.bbox_x1) /\ ParseFloatOk(row.bbox_y1)
               /\ ParseFloatOk(row.bbox_x2) /\ ParseFloatOk(row.bbox_y2)
         [] OTHER -> FALSE
    /\ ParseFloatOk(row.confidence)

\* An id generator that hands out the same id again.
GenerateSameID(n) == FreshIDs[1]

\* GenerateDetectionID(), n-th call: uuid.New().String().
GenerateDetectionID(n) == FreshIDs[n]

\* The detection parseRow returns for a row it accepts; id is the uuid
\* GenerateDetectionID() gives.
ParseRow(row, header, id) ==
    [DetectionID |-> id,
     VehicleID |-> csv.vehicleID,
     SessionID |-> csv.sessionID,
     FrameNumber |-> Atoi(row.frame_number),
     TimestampSec |-> ParseFloat(row.timestamp_sec),
     PixelU |-> IF header = "uv" THEN ParseFloat(row.u)
                ELSE (ParseFloat(row.bbox_x1) + ParseFloat(row.bbox_x2)) \div 2,
     PixelV |-> IF header = "uv" THEN ParseFloat(row.v)
                ELSE (ParseFloat(row.bbox_y1) + ParseFloat(row.bbox_y2)) \div 2,
     Confidence |-> ParseFloat(row.confidence),
     ClassName |-> row.class_name]

\* What ReadAll returns: the detections and the error, nothing else.
ReadAllResult(ds) == [detections |-> ds, err |-> "nil"]

NoResult == [detections |-> <<>>, err |-> "none"]

\* No ReadAll call in progress.
NoCsv == [vehicleID |-> "test-vehicle", sessionID |-> "test-session",
          header |-> "uv", lines |-> <<>>, pos |-> 0, detections |-> <<>>,
          done |-> FALSE, result |-> NoResult, kept |-> <<>>,
          spos |-> 0, detectionChan |-> <<>>, sent |-> <<>>,
          sdone |-> FALSE, ids |-> 0]

\* State after NewKafkaProducer returned and main parsed its flags: the
\* collector goroutine is running, the counters are zero.
Boot ==
    /\ batchMode \in BOOLEAN
    /\ nRecords \in 0..MaxRecords
    /\ workerCount \in 0..MaxWorkers
    /\ mainPc = "new"
    /\ closePc = [p \in Closers |-> "idle"]
    /\ exited = FALSE
    /\ ctxDone = FALSE
    /\ jobs = <<>>
    /\ jobsClosed = FALSE
    /\ srcNext = 0
    /\ wpc = [w \in Workers |-> "unborn"]
    /\ wrec = [w \in Workers |-> 0]
    /\ attempt = [w \in Workers |-> 0]
    /\ lastErr = [w \in Workers |-> "none"]
    /\ errors = 0
    /\ runErr = "none"
    /\ outq = [r \in Records |-> 0]
    /\ deliveryChan = <<>>
    /\ collector = "unstarted"
    /\ started = 0
    /\ ignored = 0
    /\ messagesSent = 0
    /\ messagesAcked = 0
    /\ messagesFailed = 0
    /\ flushRemaining = [c \in FlushSites |-> -1]
    /\ producerCloses = 0
    /\ gm = [s \in Sites |-> 0]
    /\ snap = [s \in Sites |-> NoSnap]
    /\ rejected = FALSE
    /\ call = [w \in Workers |-> NoCall]
    /\ hist = [r \in Records |-> NoHist]

\* A run of main: the detections are the ones the CSV reader builds.
Init ==
    /\ Boot
    /\ detections = [r \in Records |-> ReaderDetection(r)]
    /\ csv = NoCsv
    /\ rt = NoRoundTrip

----------------------------------------------------------------------------
(* Workers *)

mainVars == <<mainPc, runErr, flushRemaining>>
closeVars == <<closePc, exited, ctxDone, producerCloses, gm, snap>>
cfgVars == <<batchMode, nRecords, workerCount, rejected, detections, csv, rt>>
counters == <<messagesSent, messagesAcked, messagesFailed>>
brokerVars == <<outq, deliveryChan, collector, started, ignored>>

\* SendDetection has returned and the worker is done with the detection: the
\* locals of the call are gone.
CallOver(w) ==
    /\ wrec' = [wrec EXCEPT ![w] = 0]
    /\ attempt' = [attempt EXCEPT ![w] = 0]
    /\ lastErr' = [lastErr EXCEPT ![w] = "none"]
    /\ call' = [call EXCEPT ![w] = NoCall]

\* The worker goroutine returns.
WorkerReturns(w) ==
    /\ wpc' = [wpc EXCEPT ![w] = "exit"]
    /\ UNCHANGED <<wrec, attempt, lastErr, call>>

\* A receive that leaves the value in the channel.
ReceivePeeks(ch) == ch

\* The channel after a receive (detection := <-jobs): its head is gone.
Receive(ch) == Tail(ch)

\* A worker takes the next detection and enters SendDetection.
\* With payload, err := detection.ToJSON(); if err != nil { return ... }: a
\* detection that cannot be serialized ends the call before the retry loop.
Take(w) ==
    /\ jobs # <<>>
    /\ LET r == Head(jobs)
           fails == ToJSONFails(detections[r])
       IN /\ wrec' = [wrec EXCEPT ![w] = r]
          /\ lastErr' = [lastErr EXCEPT ![w] =
                            IF fails THEN "serialize" ELSE "none"]
          /\ wpc' = [wpc EXCEPT ![w] = IF fails THEN "report" ELSE "send"]
          /\ call' = [call EXCEPT ![w] =
                         IF fails THEN NoCall
                         ELSE [NoCall EXCEPT !.message = Message(detections[r])]]
          /\ hist' = [hist EXCEPT ![r].pulls = @ + 1,
                                  ![r].ret = IF fails THEN "err" ELSE @]
    /\ jobs' = Receive(jobs)
    /\ attempt' = [attempt EXCEPT ![w] = 0]

\* for detection := range jobs  (SendDetectionBatch's worker)
BatchPull(w) ==
    /\ ~exited /\ batchMode /\ wpc[w] = "pull"
    /\ Take(w)
    /\ UNCHANGED <<mainVars, closeVars, cfgVars, counters, brokerVars,
                   jobsClosed, srcNext, errors>>

BatchWorkerExit(w) ==
    /\ ~exited /\ batchMode /\ wpc[w] = "pull"
    /\ jobs = <<>> /\ jobsClosed
    /\ WorkerReturns(w)
    /\ UNCHANGED <<mainVars, closeVars, cfgVars, counters, brokerVars, jobs,
                   jobsClosed, srcNext, errors, hist>>

\* select { case <-kp.ctx.Done(): ...; case detection, ok := <-detectionChan: ... }
\* Go picks any ready case.
StreamPull(w) ==
    /\ ~exited /\ ~batchMode /\ wpc[w] = "pull"
    /\ Take(w)
    /\ UNCHANGED <<mainVars, closeVars, cfgVars, counters, brokerVars,
                   jobsClosed, srcNext, errors>>

StreamChannelClosed(w) ==
    /\ ~exited /\ ~batchMode /\ wpc[w] = "pull"
    /\ jobs = <<>> /\ jobsClosed
    /\ WorkerReturns(w)
    /\ UNCHANGED <<mainVars, closeVars, cfgVars, counters, brokerVars, jobs,
                   jobsClosed, srcNext, errors, hist>>

StreamCtxDone(w) ==
    /\ ~exited /\ ~batchMode /\ wpc[w] = "pull"
    /\ ctxDone
    /\ WorkerReturns(w)
    /\ UNCHANGED <<mainVars, closeVars, cfgVars, counters, brokerVars, jobs,
                   jobsClosed, srcNext, errors, hist>>

\* Off by one: the last retry is never made.
LoopStopsEarly(a) == a < maxRetries

\* The loop's exit test: attempt <= kp.maxRetries.
LoopContinues(a) == a <= maxRetries

\* Only an error known to be retriable is retried: an error that is not a
\* kafka.Error aborts as well.
AbortsUnlessRetriable(kind) == kind \in {"fatal", "other"}

\* The IsRetriable() test left out: every error is retried.
AbortsNever(kind) == FALSE

\* Whether SendDetection returns at once on this Produce error.
AbortsNow(kind) == kind = "fatal"

\* What SendDetection adds to messagesFailed on its return paths:
\* nothing on the non-retriable return, 1 after the loop.
FailedOnAbort == 0
FailedOnExhaustion == 1

\* One iteration of SendDetection's loop: the backoff sleep when attempt > 0,
\* then Produce with the outcome the broker client chooses.
Attempt(w, kind) ==
    /\ ~exited /\ wpc[w] = "send"
    /\ LET r == wrec[w]
           a == attempt[w]
           h1 == [hist[r] EXCEPT
                    !.last = kind,
                    !.accepts = IF kind = "ok" THEN @ + 1 ELSE @,
                    !.msg = IF kind = "ok" THEN call[w].message ELSE @]
       IN /\ call' = [call EXCEPT ![w] = [@ EXCEPT
                    !.sleeps = IF a > 0 THEN @ + 1 ELSE @,
                    !.slept = IF a > 0 THEN @ + Backoff(a) ELSE @,
                    !.delay = IF a > 0 THEN Backoff(a) ELSE 0,
                    !.calls = @ + 1,
                    !.handed = call[w].message,
                    !.same = @ /\ (call[w].calls = 0
                                     \/ call[w].handed = call[w].message),
                    !.transient = IF kind = "retriable" THEN @ + 1 ELSE @,
                    !.others = IF kind = "other" THEN @ + 1 ELSE @,
                    !.fatal = IF kind = "fatal" THEN @ + 1 ELSE @]]
          /\ rejected' = (rejected \/ kind # "ok")
          /\ IF kind = "ok"
             THEN /\ outq' = [outq EXCEPT ![r] = @ + 1]
                  /\ wpc' = [wpc EXCEPT ![w] = "sent"]
                  /\ hist' = [hist EXCEPT ![r] = h1]
                  /\ UNCHANGED <<attempt, lastErr, messagesFailed>>
             ELSE /\ lastErr' = [lastErr EXCEPT ![w] = kind]
                  /\ UNCHANGED outq
                  /\ IF AbortsNow(kind)
                     THEN /\ wpc' = [wpc EXCEPT ![w] = "report"]
                          /\ messagesFailed' = Add(messagesFailed, FailedOnAbort)
                          /\ hist' = [hist EXCEPT ![r] =
                                [h1 EXCEPT !.ret = "err",
                                           !.failedBy = @ + FailedOnAbort]]
                          /\ UNCHANGED attempt
                     ELSE IF LoopContinues(a + 1)
                     THEN /\ attempt' = [attempt EXCEPT ![w] = a + 1]
                          /\ hist' = [hist EXCEPT ![r] = h1]
                          /\ UNCHANGED <<wpc, messagesFailed>>
                     ELSE /\ attempt' = [attempt EXCEPT ![w] = a + 1]
                          /\ wpc' = [wpc EXCEPT ![w] = "report"]
                          /\ messagesFailed' = Add(messagesFailed, FailedOnExhaustion)
                          /\ hist' = [hist EXCEPT ![r] =
                                [h1 EXCEPT !.ret = "err",
                                           !.failedBy = @ + FailedOnExhaustion]]
    /\ UNCHANGED <<mainVars, closeVars, batchMode, nRecords, workerCount, jobs,
                   jobsClosed, srcNext, wrec, errors, deliveryChan, collector,
                   started, ignored, messagesSent, messagesAcked, detections,
                   csv, rt>>

\* The "return nil" left out: the loop goes on to another Produce.
AfterSentLoops == "send"

\* Where the worker goes after Produce returned nil and the counter is bumped:
\* SendDetection returns nil and the worker pulls again.
AfterSent == "pull"

\* kp.messagesSent.Add(1); return nil
IncSent(w) ==
    /\ ~exited /\ wpc[w] = "sent"
    /\ messagesSent' = Add(messagesSent, 1)
    /\ hist' = [hist EXCEPT ![wrec[w]].sentBy = @ + 1, ![wrec[w]].ret = "nil"]
    /\ wpc' = [wpc EXCEPT ![w] = AfterSent]
    /\ IF AfterSent = "pull" THEN CallOver(w)
       ELSE UNCHANGED <<wrec, attempt, lastErr, call>>
    /\ UNCHANGED <<mainVars, closeVars, cfgVars, brokerVars, jobs, jobsClosed,
                   srcNext, errors, messagesAcked, messagesFailed>>

\* errors := make(chan error, len(detections))  /  make(chan error, workerCount)
ErrorsCap == IF batchMode THEN nRecords ELSE workerCount

\* errors <- fmt.Errorf("worker %d ...", ...): blocks while the buffer is full.
ReportError(w) ==
    /\ ~exited /\ wpc[w] = "report"
    /\ errors < ErrorsCap
    /\ errors' = errors + 1
    /\ wpc' = [wpc EXCEPT ![w] = "pull"]
    /\ CallOver(w)
    /\ UNCHANGED <<mainVars, closeVars, cfgVars, counters, brokerVars, jobs,
                   jobsClosed, srcNext, hist>>

----------------------------------------------------------------------------
(* Broker client *)

workerVars == <<wpc, wrec, attempt, lastErr, errors, call>>
chanVars == <<jobs, jobsClosed, srcNext>>

\* The client reports the delivery of an accepted message on the channel given
\* to Produce: a *kafka.Message with or without TopicPartition.Error.
BrokerDeliver(r, result) ==
    /\ ~exited /\ producerCloses = 0
    /\ outq[r] > 0
    /\ Len(deliveryChan) < deliveryChanCap
    /\ outq' = [outq EXCEPT ![r] = @ - 1]
    /\ deliveryChan' = Append(deliveryChan, <<r, result>>)
    /\ hist' = [hist EXCEPT ![r].events = @ + 1, ![r].delivery = result]
    /\ UNCHANGED <<mainVars, closeVars, cfgVars, counters, workerVars, chanVars,
                   collector, started, ignored>>

\* The events on the delivery channel that are not message events.
OtherEvents == {i \in 1..Len(deliveryChan) : deliveryChan[i][2] = "other"}

\* An event that is not a *kafka.Message arrives on the delivery channel (it
\* belongs to no detection).
BrokerOtherEvent ==
    /\ ~exited /\ producerCloses = 0
    /\ collector # "unstarted"
    /\ ignored + Cardinality(OtherEvents) < MaxOtherEvents
    /\ Len(deliveryChan) < deliveryChanCap
    /\ deliveryChan' = Append(deliveryChan, <<0, "other">>)
    /\ UNCHANGED <<mainVars, closeVars, cfgVars, counters, workerVars, chanVars,
                   outq, collector, started, ignored, hist>>

\* Number of messages still in the client's queue: what producer.Flush returns.
RECURSIVE SumOutq(_)
SumOutq(n) == IF n = 0 THEN 0 ELSE outq[n] + SumOutq(n - 1)
Outstanding == SumOutq(nRecords)

----------------------------------------------------------------------------
(* handleDeliveryReports *)

\* Whether a delivery event bumps messagesFailed: m.TopicPartition.Error != nil.
CountsAsFailed(result) == result = "err"

\* A collector that counts every delivery event as acknowledged.
CountsAsAckedAlways(result) == TRUE

\* Whether a delivery event bumps messagesAcked: the else branch.
CountsAsAcked(result) == result # "err"

\* A type assertion that takes every event for a message.
IsMessageAlways(result) == TRUE

\* m, ok := e.(*kafka.Message): whether the event is a message event.
IsMessage(result) == result \in {"ack", "err"}

\* case e := <-kp.deliveryChan
CollectorRecv ==
    /\ ~exited /\ collector = "running"
    /\ deliveryChan # <<>>
    /\ LET r == Head(deliveryChan)[1]
           result == Head(deliveryChan)[2]
           f == IF CountsAsFailed(result) THEN 1 ELSE 0
           a == IF CountsAsAcked(result) THEN 1 ELSE 0
       IN IF IsMessage(result)
          THEN /\ messagesFailed' = Add(messagesFailed, f)
               /\ messagesAcked' = Add(messagesAcked, a)
               /\ hist' = [hist EXCEPT ![r].failedBy = @ + f,
                                       ![r].ackedBy = @ + a]
               /\ UNCHANGED ignored
          ELSE /\ ignored' = ignored + 1
               /\ UNCHANGED <<messagesFailed, messagesAcked, hist>>
    /\ deliveryChan' = Tail(deliveryChan)
    /\ UNCHANGED <<mainVars, closeVars, cfgVars, workerVars, chanVars, outq,
                   collector, started, messagesSent>>

\* A collector that never looks at the context.
CollectorIgnoresCancel == FALSE

\* Whether the collector's case <-kp.ctx.Done() is ready.
CollectorSeesCancel == ctxDone

\* case <-kp.ctx.Done(): return
CollectorExit ==
    /\ ~exited /\ collector = "running"
    /\ CollectorSeesCancel
    /\ collector' = "exited"
    /\ UNCHANGED <<mainVars, closeVars, cfgVars, counters, workerVars, chanVars,
                   outq, deliveryChan, started, ignored, hist>>

----------------------------------------------------------------------------
(* The CSV source goroutine of streaming mode (main.go:95-100) *)

SourcePush ==
    /\ ~exited /\ ~batchMode
    /\ srcNext \in 1..nRecords
    /\ Len(jobs) < detectionChanCap
    /\ jobs' = Append(jobs, srcNext)
    /\ srcNext' = srcNext + 1
    /\ UNCHANGED <<mainVars, closeVars, cfgVars, counters, brokerVars,
                   workerVars, jobsClosed, hist>>

SourceClose ==
    /\ ~exited /\ ~batchMode
    /\ srcNext = nRecords + 1 /\ ~jobsClosed
    /\ jobsClosed' = TRUE
    /\ UNCHANGED <<mainVars, closeVars, cfgVars, counters, brokerVars,
                   workerVars, jobs, srcNext, hist>>

----------------------------------------------------------------------------
(* main *)

RECURSIVE Upto(_)
Upto(n) == IF n = 0 THEN <<>> ELSE Append(Upto(n - 1), n)

\* A constructor that leaves the delivery report handler unstarted.
CollectorNotStarted == "unstarted"

\* The collector when NewKafkaProducer returns: kp.wg.Add(1);
\* go kp.handleDeliveryReports().
CollectorAfterNew == "running"

\* kafkaProducer, err := producer.NewKafkaProducer(cfg) succeeds: the client is
\* created and the delivery report handler is started.
NewKafkaProducer ==
    /\ ~exited /\ mainPc = "new"
    /\ collector' = CollectorAfterNew
    /\ started' = started + 1
    /\ UNCHANGED ignored
    /\ mainPc' = "start"
    /\ UNCHANGED <<closeVars, cfgVars, counters, outq, deliveryChan, workerVars,
                   chanVars, runErr, flushRemaining, hist>>

\* kafka.NewProducer fails: NewKafkaProducer returns the error before anything
\* is started and main ends the process with log.Fatalf.
NewKafkaProducerFails ==
    /\ ~exited /\ mainPc = "new"
    /\ mainPc' = "fatal"
    /\ exited' = TRUE
    /\ UNCHANGED <<closePc, ctxDone, producerCloses, gm, snap, cfgVars, counters,
                   brokerVars, workerVars, chanVars, runErr, flushRemaining,
                   hist>>

\* A spawn loop that stops one iteration early.
SpawnOneFewer(n) == n - 1

\* for i := 0; i < workerCount; i++ { workerWg.Add(1); go func(...) }: the
\* number of worker goroutines the loop starts.
SpawnCount(n) == n

\* The workers after the spawn loop: each started one waits for input.
Spawn == [w \in Workers |-> IF w <= SpawnCount(workerCount) THEN "pull"
                            ELSE "unborn"]

\* SendDetectionBatch with an empty slice returns nil at once.
BatchEmpty ==
    /\ ~exited /\ mainPc = "start" /\ batchMode
    /\ nRecords = 0
    /\ runErr' = "nil"
    /\ mainPc' = "flush"
    /\ UNCHANGED <<closeVars, cfgVars, counters, brokerVars, workerVars,
                   chanVars, flushRemaining, hist>>

\* SendDetectionBatch up to workerWg.Wait(): the workers are spawned, every
\* detection is queued (the buffer holds them all) and jobs is closed.
BatchDispatch ==
    /\ ~exited /\ mainPc = "start" /\ batchMode
    /\ nRecords > 0
    /\ wpc' = Spawn
    /\ jobs' = Upto(nRecords)
    /\ jobsClosed' = TRUE
    /\ mainPc' = "wait"
    /\ UNCHANGED <<closeVars, cfgVars, counters, brokerVars, wrec, attempt,
                   lastErr, errors, call, srcNext, runErr, flushRemaining, hist>>

\* Streaming mode up to streamWg.Wait(): the source goroutine is started and
\* the workers are spawned.
StreamStart ==
    /\ ~exited /\ mainPc = "start" /\ ~batchMode
    /\ wpc' = Spawn
    /\ srcNext' = 1
    /\ mainPc' = "wait"
    /\ UNCHANGED <<closeVars, cfgVars, counters, brokerVars, wrec, attempt,
                   lastErr, errors, call, jobs, jobsClosed, runErr,
                   flushRemaining, hist>>

\* A pool call that swallows the errors it collected.
PoolResultAlwaysNil(n) == "nil"

\* What the pool call returns for the errors it collected.
PoolResult(n) == IF n > 0 THEN "err" ELSE "nil"

\* workerWg.Wait() / streamWg.Wait() returns; the errors are counted.
PoolReturn ==
    /\ ~exited /\ mainPc = "wait"
    /\ \A w \in Workers : wpc[w] = "exit"
    /\ runErr' = PoolResult(errors)
    /\ mainPc' = "flush"
    /\ UNCHANGED <<closeVars, cfgVars, counters, brokerVars, workerVars,
                   chanVars, flushRemaining, hist>>

\* producer.Flush(timeoutMs) returns 0 once the client's queue is empty, or
\* the number still queued when the timeout elapses first.
FlushReturns(site) ==
    /\ flushRemaining' = [flushRemaining EXCEPT ![site] = Outstanding]

\* What KafkaProducer.Flush hands back to its caller, given what producer.Flush
\* returned to it: the method has no result, the count is only logged.
FlushResult(remaining) == <<>>

\* kafkaProducer.Flush(90 * time.Second)
MainFlush ==
    /\ ~exited /\ mainPc = "flush"
    /\ FlushReturns("run")
    /\ mainPc' = "report"
    /\ UNCHANGED <<closeVars, cfgVars, counters, brokerVars, workerVars,
                   chanVars, runErr, hist>>

----------------------------------------------------------------------------
(* GetMetrics *)

\* The six atomic loads of GetMetrics, in the order the map literal makes them.
LoadInto(m, k) ==
    CASE k = 1 -> [m EXCEPT !.messages_sent = messagesSent]
      [] k = 2 -> [m EXCEPT !.messages_acked = messagesAcked]
      [] k = 3 -> [m EXCEPT !.messages_failed = messagesFailed]
      [] k = 4 -> [m EXCEPT !.messages_pending = messagesSent]
      [] k = 5 -> [m EXCEPT !.messages_pending = @ - messagesAcked]
      [] OTHER -> [m EXCEPT !.messages_pending = @ - messagesFailed]

Load(site) ==
    /\ gm' = [gm EXCEPT ![site] = @ + 1]
    /\ snap' = [snap EXCEPT ![site] = LoadInto(@, gm[site] + 1)]

\* kafkaProducer.LogMetrics() of the final report (main.go:117); after it
\* main returns and its deferred Close runs.
ReportLoad ==
    /\ ~exited /\ mainPc = "report"
    /\ Load("report")
    /\ mainPc' = IF gm["report"] = 5 THEN "close" ELSE "report"
    /\ closePc' = IF gm["report"] = 5 THEN [closePc EXCEPT !["main"] = "cancel"]
                  ELSE closePc
    /\ UNCHANGED <<exited, ctxDone, producerCloses, cfgVars, counters,
                   brokerVars, workerVars, chanVars, runErr, flushRemaining,
                   hist>>

----------------------------------------------------------------------------
(* Close, run by party p *)

\* signal.Notify fired: the signal goroutine calls kafkaProducer.Close().
Signal ==
    /\ ~exited /\ closePc["sig"] = "idle"
    /\ mainPc # "new"
    /\ closePc' = [closePc EXCEPT !["sig"] = "cancel"]
    /\ UNCHANGED <<mainVars, exited, ctxDone, producerCloses, gm, snap, cfgVars,
                   counters, brokerVars, workerVars, chanVars, hist>>

\* kp.cancel()
CloseCancel(p) ==
    /\ ~exited /\ closePc[p] = "cancel"
    /\ ctxDone' = TRUE
    /\ closePc' = [closePc EXCEPT ![p] = "flush"]
    /\ UNCHANGED <<mainVars, exited, producerCloses, gm, snap, cfgVars,
                   counters, brokerVars, workerVars, chanVars, hist>>

\* kp.Flush(30 * time.Second)
CloseFlush(p) ==
    /\ ~exited /\ closePc[p] = "flush"
    /\ FlushReturns(p)
    /\ closePc' = [closePc EXCEPT ![p] = "wait"]
    /\ UNCHANGED <<mainPc, runErr, exited, ctxDone, producerCloses, gm, snap,
                   cfgVars, counters, brokerVars, workerVars, chanVars, hist>>

\* kp.wg.Wait()
CloseWait(p) ==
    /\ ~exited /\ closePc[p] = "wait"
    /\ collector = "exited"
    /\ closePc' = [closePc EXCEPT ![p] = "close"]
    /\ UNCHANGED <<mainVars, exited, ctxDone, producerCloses, gm, snap, cfgVars,
                   counters, brokerVars, workerVars, chanVars, hist>>

\* kp.producer.Close()
CloseProducer(p) ==
    /\ ~exited /\ closePc[p] = "close"
    /\ producerCloses' = producerCloses + 1
    /\ closePc' = [closePc EXCEPT ![p] = "log"]
    /\ UNCHANGED <<mainVars, exited, ctxDone, gm, snap, cfgVars, counters,
                   brokerVars, workerVars, chanVars, hist>>

\* kp.LogMetrics() at the end of Close
CloseLog(p) ==
    /\ ~exited /\ closePc[p] = "log"
    /\ Load(p)
    /\ closePc' = IF gm[p] = 5 THEN [closePc EXCEPT ![p] = "ret"] ELSE closePc
    /\ UNCHANGED <<mainVars, exited, ctxDone, producerCloses, cfgVars, counters,
                   brokerVars, workerVars, chanVars, hist>>

\* The exit status of the process when party p ends it: main returns (status
\* 0) or the signal goroutine calls os.Exit(0).
ExitCode(p) == 0

\* Close returned: main returns, or the signal goroutine calls os.Exit(0).
\* Either way the process ends.
ProcessExit(p) ==
    /\ ~exited /\ closePc[p] = "ret"
    /\ exited' = TRUE
    /\ UNCHANGED <<mainVars, closePc, ctxDone, producerCloses, gm, snap, cfgVars,
                   counters, brokerVars, workerVars, chanVars, hist>>

----------------------------------------------------------------------------

\* A run in which no signal arrives: Close runs once, from main's defer.
Next ==
    \/ \E w \in Workers : BatchPull(w)
    \/ \E w \in Workers : BatchWorkerExit(w)
    \/ \E w \in Workers : StreamPull(w)
    \/ \E w \in Workers : StreamChannelClosed(w)
    \/ \E w \in Workers, kind \in ProduceOutcomes \ {"other"} : Attempt(w, kind)
    \/ \E w \in Workers : IncSent(w)
    \/ \E w \in Workers : ReportError(w)
    \/ \E r \in Records, result \in {"ack", "err"} : BrokerDeliver(r, result)
    \/ CollectorRecv
    \/ CollectorExit
    \/ SourcePush
    \/ SourceClose
    \/ NewKafkaProducer
    \/ NewKafkaProducerFails
    \/ BatchEmpty
    \/ BatchDispatch
    \/ StreamStart
    \/ PoolReturn
    \/ MainFlush
    \/ ReportLoad
    \/ CloseCancel("main")
    \/ CloseFlush("main")
    \/ CloseWait("main")
    \/ CloseProducer("main")
    \/ CloseLog("main")
    \/ ProcessExit("main")

Spec == Init /\ [][Next]_vars

\* Runs with a single worker, so that the SendDetection calls follow one
\* another, and a broker client whose Produce may also fail with an error that
\* is not a kafka.Error.
SendInit == Init /\ workerCount = 1 /\ nRecords < MaxRecords
SendNext == Next \/ \E w \in Workers : Attempt(w, "other")
SendSpec == SendInit /\ [][SendNext]_vars

\* The runs of SendSpec with a delivery channel that also carries events that
\* are not message events.
EventSpec == SendInit /\ [][SendNext \/ BrokerOtherEvent]_vars

\* Runs in which SIGINT/SIGTERM may arrive at any moment: the signal goroutine
\* runs Close concurrently with main, and streaming workers may see ctx.Done().
SigInit == Init /\ nRecords < MaxRecords /\ workerCount < MaxWorkers
SigNext ==
    \/ Next
    \/ Signal
    \/ \E w \in Workers : StreamCtxDone(w)
    \/ CloseCancel("sig")
    \/ CloseFlush("sig")
    \/ CloseWait("sig")
    \/ CloseProducer("sig")
    \/ CloseLog("sig")
    \/ ProcessExit("sig")
SigSpec == SigInit /\ [][SigNext]_vars

\* A channel that hands over the newest element first.
ChanSendFront(ch, d) == <<d>> \o ch

\* detectionChan <- detection, as the sequence of everything put on the
\* channel so far.
ChanSend(ch, d) == Append(ch, d)

\* One iteration of ReadAll's loop: reader.Read(), parseRow, append.  kept
\* records the line numbers of the rows appended, ids the calls of
\* GenerateDetectionID so far.
ReadAllRow ==
    /\ ~csv.done /\ csv.pos < Len(csv.lines)
    /\ LET line == csv.lines[csv.pos + 1]
           id == GenerateDetectionID(csv.ids + 1)
           skip == line.err \/ ~ParseRowOk(line.row, csv.header)
       IN csv' = [csv EXCEPT
                    !.pos = @ + 1,
                    !.detections =
                        IF line.err THEN @
                        ELSE IF ~ParseRowOk(line.row, csv.header) THEN @
                        ELSE Append(@, ParseRow(line.row, csv.header, id)),
                    !.kept = IF skip THEN @ ELSE Append(@, csv.pos + 1),
                    !.ids = IF skip THEN @ ELSE @ + 1]
    /\ UNCHANGED <<mainVars, closeVars, batchMode, nRecords, workerCount,
                   rejected, detections, counters, brokerVars, workerVars,
                   chanVars, hist, rt>>

\* reader.Read() returns io.EOF: ReadAll returns what it collected.
ReadAllReturn ==
    /\ ~csv.done /\ csv.pos = Len(csv.lines)
    /\ csv' = [csv EXCEPT !.done = TRUE,
                          !.result = ReadAllResult(csv.detections)]
    /\ UNCHANGED <<mainVars, closeVars, batchMode, nRecords, workerCount,
                   rejected, detections, counters, brokerVars, workerVars,
                   chanVars, hist, rt>>

\* ReadAll on every file with a readable header of at most MaxRows lines; the
\* producer is idle.
CsvInit ==
    /\ Boot
    /\ batchMode /\ nRecords = 0 /\ workerCount = 0
    /\ detections = <<>>
    /\ \E f \in CsvFiles : csv = [NoCsv EXCEPT !.header = f.header,
                                                !.lines = f.lines]
    /\ rt = NoRoundTrip
CsvNext == ReadAllRow \/ ReadAllReturn
CsvSpec == CsvInit /\ [][CsvNext]_vars

\* One iteration of StreamToChannel's loop: reader.Read(), parseRow, send on
\* the channel.  sent records the line numbers of the rows sent.
StreamToChannelRow ==
    /\ ~csv.sdone /\ csv.spos < Len(csv.lines)
    /\ LET line == csv.lines[csv.spos + 1]
           id == GenerateDetectionID(csv.ids + 1)
           skip == line.err \/ ~ParseRowOk(line.row, csv.header)
       IN csv' = [csv EXCEPT
                    !.spos = @ + 1,
                    !.detectionChan =
                        IF line.err THEN @
                        ELSE IF ~ParseRowOk(line.row, csv.header) THEN @
                        ELSE ChanSend(@, ParseRow(line.row, csv.header, id)),
                    !.sent = IF skip THEN @ ELSE Append(@, csv.spos + 1),
                    !.ids = IF skip THEN @ ELSE @ + 1]
    /\ UNCHANGED <<mainVars, closeVars, batchMode, nRecords, workerCount,
                   rejected, detections, counters, brokerVars, workerVars,
                   chanVars, hist, rt>>

\* reader.Read() returns io.EOF: StreamToChannel returns nil.
StreamToChannelReturn ==
    /\ ~csv.sdone /\ csv.spos = Len(csv.lines)
    /\ csv' = [csv EXCEPT !.sdone = TRUE]
    /\ UNCHANGED <<mainVars, closeVars, batchMode, nRecords, workerCount,
                   rejected, detections, counters, brokerVars, workerVars,
                   chanVars, hist, rt>>

\* The same file read by ReadAll and by StreamToChannel, the two readers
\* drawing their ids from the one generator.
SourceNext == CsvNext \/ StreamToChannelRow \/ StreamToChannelReturn
SourceSpec == CsvInit /\ [][SourceNext]_vars

\* jsonBytes, err := detection.ToJSON()
RoundTripToJSON ==
    /\ rt.pc = "start"
    /\ rt' = [rt EXCEPT !.pc = "marshalled", !.data = ToJSON(rt.d)]
    /\ UNCHANGED <<mainVars, closeVars, batchMode, nRecords, workerCount,
                   rejected, detections, counters, brokerVars, workerVars,
                   chanVars, hist, csv>>

\* parsed, err := FromJSON(jsonBytes)
RoundTripFromJSON ==
    /\ rt.pc = "marshalled"
    /\ rt' = [rt EXCEPT !.pc = "parsed", !.parsed = FromJSON(rt.data),
                        !.err = "nil"]
    /\ UNCHANGED <<mainVars, closeVars, batchMode, nRecords, workerCount,
                   rejected, detections, counters, brokerVars, workerVars,
                   chanVars, hist, csv>>

\* FromJSON(ToJSON(d)) on every detection of JsonDetections; the producer is
\* idle.
JsonInit ==
    /\ Boot
    /\ batchMode /\ nRecords = 0 /\ workerCount = 0
    /\ detections = <<>>
    /\ csv = NoCsv
    /\ \E d \in JsonDetections : rt = [NoRoundTrip EXCEPT !.pc = "start", !.d = d]
JsonNext == RoundTripToJSON \/ RoundTripFromJSON
JsonSpec == JsonInit /\ [][JsonNext]_vars

\* Runs in which the caller submits detections of its own, so that the same
\* detection (same id) may be submitted twice; a single worker.
MsgInit ==
    /\ Boot
    /\ workerCount = 1 /\ nRecords < MaxRecords
    /\ detections \in [Records -> SubmittedDetections]
    /\ csv = NoCsv
    /\ rt = NoRoundTrip
MsgSpec == MsgInit /\ [][Next]_vars

\* Runs of a single worker on detections read from a file in which the
\* confidence of a row may be "NaN".
SerInit ==
    /\ Boot
    /\ workerCount = 1 /\ nRecords < MaxRecords
    /\ \E c \in [Records -> {5249, NaN}] :
          detections = [r \in Records |-> ReaderDetectionWith(r, c[r])]
    /\ csv = NoCsv
    /\ rt = NoRoundTrip
SerSpec == SerInit /\ [][Next]_vars

\* The same runs on small inputs, with the scheduling the Go runtime gives:
\* a goroutine that can take its next step (a Close step, the Flush of main,
\* the collector's ctx.Done() case) eventually takes it.
LiveInit == Init /\ nRecords < MaxRecords - 1 /\ workerCount < MaxWorkers
LiveSpec ==
    /\ LiveInit /\ [][SigNext]_vars
    /\ WF_vars(MainFlush)
    /\ WF_vars(CollectorExit)
    /\ \A p \in Closers :
          /\ WF_vars(CloseCancel(p))
          /\ WF_vars(CloseFlush(p))
          /\ WF_vars(CloseWait(p))
          /\ WF_vars(CloseProducer(p))
          /\ WF_vars(CloseLog(p))
          /\ WF_vars(ProcessExit(p))

----------------------------------------------------------------------------
(* Properties *)

\* The delivery event of detection r has been consumed by the collector.
Consumed(r) ==
    /\ hist[r].events >= 1
    /\ outq[r] = 0
    /\ \A i \in 1..Len(deliveryChan) : deliveryChan[i][1] # r

\* A worker that holds an error it cannot put on the errors channel.
Blocked(w) == wpc[w] = "report" /\ errors >= ErrorsCap

\* C1: in every reachable state sent >= acked + failed, that is
\* pending = sent - acked - failed is never negative.
C1_PendingNeverNegative ==
    /\ messagesSent >= messagesAcked + messagesFailed
    /\ messagesSent - messagesAcked - messagesFailed >= 0

\* C2: across all retry attempts of SendDetection the broker accepts a record
\* at most once; a record is handed to SendDetection at most once; and
\* SendDetection returns nil exactly when Produce accepted the record, once.
C2_AcceptedAtMostOnce ==
    \A r \in Records :
        /\ hist[r].pulls <= 1
        /\ hist[r].accepts <= 1
        /\ (hist[r].last = "ok" <=> hist[r].accepts = 1)
        /\ (hist[r].ret = "nil" => hist[r].accepts = 1)
        /\ (hist[r].ret = "err" => hist[r].accepts = 0)

\* A record that was accepted on a retry, after earlier attempts failed.
C2_Witness ==
    \E w \in Workers :
        /\ wpc[w] = "sent"
        /\ call[w].calls > 1
        /\ hist[wrec[w]].accepts = 1

\* C3: in batch mode with W >= 1 workers, when the broker accepted every send
\* and acked every accepted message (the flush found nothing outstanding), the
\* final report reads acked = N and failed = 0.
C3_BatchAllAcked ==
    ( /\ batchMode /\ workerCount >= 1
      /\ gm["report"] = 6
      /\ ~rejected
      /\ flushRemaining["run"] = 0
      /\ \A r \in Records : hist[r].delivery = "ack" )
    => /\ snap["report"].messages_acked = nRecords
       /\ snap["report"].messages_failed = 0

\* C4: a record whose send the broker rejects with a non-retriable error
\* contributes exactly 1 to the failed counter.
C4_NonRetriableCountedFailed ==
    \A r \in Records :
        (hist[r].last = "fatal" /\ hist[r].ret = "err") => hist[r].failedBy = 1

\* C5 as stated: after a non-retriable failure exactly one send attempt was
\* made for the record, no backoff delay was taken and an error is returned.
C5_ExactlyOneAttempt ==
    \A w \in Workers :
        (wpc[w] = "report" /\ lastErr[w] = "fatal") =>
            /\ call[w].calls = 1
            /\ call[w].sleeps = 0 /\ call[w].slept = 0
            /\ hist[wrec[w]].ret = "err"

\* C5 amended: a non-retriable failure ends SendDetection at once with an
\* error: the failing attempt is the last one (no attempt and no backoff
\* follow it, whatever the number of retries left), so the attempts made are
\* the earlier transient failures plus one, and exactly one attempt with no
\* backoff when the first attempt is the one that fails.
C5_AbortsImmediately ==
    \A w \in Workers :
        /\ call[w].fatal <= 1
        /\ (call[w].fatal = 1 =>
              /\ wpc[w] = "report" /\ lastErr[w] = "fatal"
              /\ hist[wrec[w]].ret = "err"
              /\ call[w].calls = call[w].transient + call[w].others + 1
              /\ call[w].sleeps = call[w].calls - 1
              /\ (call[w].transient + call[w].others = 0 =>
                    call[w].calls = 1 /\ call[w].slept = 0))

\* A non-retriable failure on a retry with retries still left.
C5_Witness ==
    \E w \in Workers :
        /\ wpc[w] = "report" /\ lastErr[w] = "fatal"
        /\ call[w].calls = 3 /\ attempt[w] < maxRetries

C7_ExhaustedCountedFailed ==
    /\ \A w \in Workers :
          /\ call[w].calls <= maxRetries + 1
          /\ ( /\ wpc[w] = "report"
               /\ call[w].fatal = 0 ) =>
                 /\ call[w].calls = maxRetries + 1
                 /\ call[w].sleeps = maxRetries
                 /\ call[w].transient + call[w].others = maxRetries + 1
                 /\ hist[wrec[w]].ret = "err"
                 /\ hist[wrec[w]].failedBy = 1
          /\ (call[w].transient + call[w].others = maxRetries + 1 =>
                 wpc[w] = "report")
    /\ \A r \in Records :
          (hist[r].ret = "err" /\ hist[r].last # "fatal") =>
              hist[r].failedBy = 1 /\ hist[r].accepts = 0

\* Every one of the maxRetries + 1 attempts failed with a retriable error.
C7_Witness ==
    \E w \in Workers :
        /\ wpc[w] = "report"
        /\ call[w].transient = maxRetries + 1
        /\ messagesFailed = 1

\* The run is over and nothing is in flight any more.
RunSettled ==
    /\ mainPc = "close"
    /\ \A r \in Records : hist[r].pulls = 1 /\ (hist[r].accepts = 1 => Consumed(r))

\* The broker rejects detection r permanently: Produce fails with a
\* non-retriable error, or keeps failing until the retries are used up, or the
\* accepted message's delivery report carries an error.
RejectedPermanently(r) ==
    \/ hist[r].last = "fatal"
    \/ (hist[r].ret = "err" /\ hist[r].accepts = 0)
    \/ hist[r].delivery = "err"

AcceptedAndAcked(r) == hist[r].accepts = 1 /\ hist[r].delivery = "ack"

\* C8: 3 records, W = 2, the broker acks records 1 and 3 and rejects record 2
\* permanently: the run ends with sent = 3, acked = 2, failed = 1, pending = 0
\* and the batch call returned an error.
C8_Scenario ==
    ( /\ batchMode /\ nRecords = 3 /\ workerCount = 2
      /\ RunSettled
      /\ AcceptedAndAcked(1) /\ RejectedPermanently(2) /\ AcceptedAndAcked(3) )
    => /\ messagesSent = 3
       /\ messagesAcked = 2
       /\ messagesFailed = 1
       /\ messagesSent - messagesAcked - messagesFailed = 0
       /\ runErr = "err"

\* C9: without cancellation, a failing record never stops the pool: whenever
\* no worker can take a step any more (each has returned or is stuck), every
\* record of the input has been attempted.
C9_FailureNeverHaltsPool ==
    ( /\ workerCount >= 1 /\ mainPc = "wait" /\ ~ctxDone
      /\ \A w \in Workers : wpc[w] = "exit" \/ Blocked(w) )
    => \A r \in Records : hist[r].pulls = 1

\* C10: once the input is exhausted (channel closed and empty) and every pulled
\* record has reached its sent-or-aborted decision, no worker is blocked: each
\* has exited or can still step, so the pool call returns.
C10_PoolTerminates ==
    ( /\ workerCount >= 1 /\ mainPc = "wait"
      /\ jobsClosed /\ jobs = <<>>
      /\ \A w \in Workers : wpc[w] \notin {"send", "sent"} )
    => \A w \in Workers : ~Blocked(w)

\* C11: in streaming mode, once the context is cancelled no worker pulls a
\* record from the detection channel any more: no step taken while ctx is
\* done increases the number of pulls of any record.
C11_NoPullAfterCancel ==
    [][(~batchMode /\ ctxDone) =>
          \A r \in Records : hist'[r].pulls = hist[r].pulls]_vars

\* C12: cancellation never leaves a pulled record without an outcome: when
\* a streaming run has ended after a cancellation, every record a worker pulled was
\* accepted by the broker or SendDetection returned an error for it.
C12_InFlightResolves ==
    (~batchMode /\ exited /\ ctxDone) =>
        \A r \in Records :
            hist[r].pulls >= 1 => (hist[r].accepts >= 1 \/ hist[r].ret = "err")

\* C13: however the Close of main's defer and the Close of the signal handler
\* interleave, producer.Close() is executed at most once, and exactly once by
\* the time a Close has returned.
C13_ClientClosedOnce ==
    /\ producerCloses <= 1
    /\ \A p \in Closers : closePc[p] \in {"log", "ret"} => producerCloses = 1

\* C14: when Close logs the final metrics, every delivery event the broker
\* emitted has been consumed by the collector and is counted in acked or
\* failed: none is left on the delivery channel.
C14_CollectorDrainsBeforeLog ==
    \A p \in Closers :
        closePc[p] \in {"log", "ret"} =>
            deliveryChan = <<>>

\* C15: Flush and Close never block for ever: the Flush of main returns, and
\* a party that has entered Close gets to the end of it (or the process is
\* ended by the other party's Close), messages pending or not.
C15_ShutdownCompletes ==
    /\ (mainPc = "flush") ~> (mainPc # "flush" \/ exited)
    /\ \A p \in Closers :
          (closePc[p] = "cancel") ~> (closePc[p] = "ret" \/ exited)

\* A Close that ran to its end although its Flush left a message pending.
C15_Witness ==
    \E p \in Closers : closePc[p] = "ret" /\ flushRemaining[p] > 0

\* C16: Flush returns to its caller the count producer.Flush found still
\* outstanding (0 when drained, the remainder on timeout).
C16_FlushReturnsOutstanding ==
    \A site \in FlushSites :
        flushRemaining[site] >= 0 =>
            FlushResult(flushRemaining[site]) = <<flushRemaining[site]>>

\* C17: the process ends with a non-zero exit status exactly when the final
\* failed count or the count still pending after the flush is non-zero.
C17_ExitStatusReflectsFailure ==
    \A p \in Closers :
        (exited /\ closePc[p] = "ret" /\ gm["report"] = 6) =>
            (ExitCode(p) # 0 <=>
                (snap["report"].messages_failed # 0 \/ flushRemaining["run"] > 0))

\* m is the message of detection d: keyed by its id, the three routing
\* headers with its values, its serialization as body.
WellFormed(m, d) ==
    /\ m.Key = d.DetectionID
    /\ Len(m.Headers) = 3
    /\ {m.Headers[i] : i \in 1..3} =
          {[Key |-> "vehicle_id", Value |-> d.VehicleID],
           [Key |-> "session_id", Value |-> d.SessionID],
           [Key |-> "class_name", Value |-> d.ClassName]}
    /\ m.Value = ToJSON(d)

\* Two submissions of the same detection id.
Resubmitted(r1, r2) ==
    r1 # r2 /\ detections[r1].DetectionID = detections[r2].DetectionID

\* C18: the same detection id submitted twice is sent twice: each submission
\* is pulled and sent on its own, each accepted message carries that id as its
\* key, and once the pool has returned with a broker that accepted every send
\* both submissions are counted in sent (sent = number of submissions).
C18_NoDeduplication ==
    \A r1, r2 \in Records :
        Resubmitted(r1, r2) =>
            /\ hist[r1].pulls <= 1 /\ hist[r1].accepts <= 1
            /\ (hist[r1].accepts = 1 =>
                  hist[r1].msg.Key = detections[r2].DetectionID)
            /\ (hist[r1].ret = "nil" => hist[r1].sentBy = 1)
            /\ ((mainPc \in {"flush", "report", "close"} /\ ~rejected) =>
                  /\ hist[r1].sentBy + hist[r2].sentBy = 2
                  /\ messagesSent = nRecords)

\* The same id submitted twice, both messages accepted and counted.
C18_Witness ==
    \E r1, r2 \in Records :
        /\ Resubmitted(r1, r2)
        /\ hist[r1].msg.Key = hist[r2].msg.Key
        /\ hist[r1].sentBy = 1 /\ hist[r2].sentBy = 1
        /\ messagesSent = 2

\* C19: every message handed to Produce is the message of the detection the
\* call was given (key, the three headers, body), the same one on every
\* attempt of the call, and so is the message the broker accepted; a
\* detection gives at most one accepted message.
C19_MessageFromDetection ==
    /\ \A w \in Workers :
          call[w].calls >= 1 =>
              /\ WellFormed(call[w].handed, detections[wrec[w]])
              /\ call[w].same
    /\ \A r \in Records :
          /\ hist[r].accepts <= 1
          /\ hist[r].accepts = 1 => WellFormed(hist[r].msg, detections[r])

\* A message accepted on its third attempt.
C19_Witness ==
    \E w \in Workers :
        /\ wpc[w] = "sent" /\ call[w].calls = 3
        /\ hist[wrec[w]].msg = call[w].handed
        /\ hist[wrec[w]].msg.Key = detections[wrec[w]].DetectionID

\* A line of the file that ReadAll has to drop: csv.Reader fails on it, or one
\* of its fields does not parse.
Invalid(line, header) == line.err \/ ~ParseRowOk(line.row, header)

\* The lines of the file that are not dropped, in file order.
ValidLines == SelectSeq(csv.lines, LAMBDA l : ~Invalid(l, csv.header))

\* C20: for every file with a readable header ReadAll returns a nil error and
\* one detection per valid line and none for an invalid one, and its result
\* carries the number of lines it dropped.
C20_InvalidRowsFilteredAndCounted ==
    csv.done =>
        /\ csv.result.err = "nil"
        /\ Len(csv.result.detections) = Len(ValidLines)
        /\ \A i \in 1..Len(csv.result.detections) :
              csv.result.detections[i].FrameNumber =
                  Atoi(ValidLines[i].row.frame_number)
        /\ "dropped" \in DOMAIN csv.result
        /\ csv.result.dropped = Len(csv.lines) - Len(ValidLines)

\* C21: for a file whose rows are all valid ReadAll returns one detection per
\* row, in file order, with the row's frame number, class name and
\* confidence, the reader's vehicle and session id, and a non-empty detection
\* id that no other detection of the result has.
C21_OneDetectionPerValidRow ==
    (csv.done /\ ValidLines = csv.lines) =>
        LET ds == csv.result.detections
        IN /\ csv.result.err = "nil"
           /\ Len(ds) = Len(csv.lines)
           /\ \A i \in 1..Len(ds) :
                 /\ ds[i].FrameNumber = Atoi(csv.lines[i].row.frame_number)
                 /\ ds[i].ClassName = csv.lines[i].row.class_name
                 /\ ds[i].Confidence = ParseFloat(csv.lines[i].row.confidence)
                 /\ ds[i].VehicleID = csv.vehicleID
                 /\ ds[i].SessionID = csv.sessionID
                 /\ ds[i].DetectionID # ""
                 /\ \A j \in 1..Len(ds) :
                       i # j => ds[i].DetectionID # ds[j].DetectionID

\* Two valid rows that differ in frame number, class name and confidence.
C21_Witness ==
    /\ csv.done /\ ValidLines = csv.lines /\ Len(csv.lines) = 2
    /\ csv.result.detections[1].FrameNumber = 206
    /\ csv.result.detections[2].FrameNumber = 75
    /\ csv.result.detections[1].ClassName # csv.result.detections[2].ClassName
    /\ csv.result.detections[1].Confidence # csv.result.detections[2].Confidence

\* C22: FromJSON(ToJSON(d)) succeeds and gives back the detection id, frame
\* number, timestamp and class name of d, and its optional GPS fields
\* vehicle_lat, vehicle_lon and heading: nil stays nil, a set value comes back.
C22_RoundTrip ==
    rt.pc = "parsed" =>
        /\ rt.err = "nil"
        /\ rt.parsed.DetectionID = rt.d.DetectionID
        /\ rt.parsed.FrameNumber = rt.d.FrameNumber
        /\ rt.parsed.TimestampSec = rt.d.TimestampSec
        /\ rt.parsed.ClassName = rt.d.ClassName
        /\ rt.parsed.VehicleLat = rt.d.VehicleLat
        /\ rt.parsed.VehicleLon = rt.d.VehicleLon
        /\ "Heading" \in DOMAIN rt.d /\ "Heading" \in DOMAIN rt.parsed
        /\ rt.parsed.Heading = rt.d.Heading

\* C23: in both modes every worker checks the cancellation signal: once the
\* context is cancelled a worker finishes at most the record it holds and
\* takes no further record from the input, in SendDetectionBatch as in
\* StreamFromChannel.
C23_WorkersStopOnCancel ==
    [][ctxDone =>
          \A w \in Workers :
              (wpc[w] = "pull" => wpc'[w] \in {"pull", "exit"})]_vars

\* C24: shutdown keeps its order whoever triggers it: when a Close calls Flush
\* the context is cancelled and no worker is still pulling or sending; the
\* collector is awaited only after that Flush has returned, and the final
\* metrics are logged only after the collector has exited.
C24_ShutdownOrder ==
    [][\A p \in Closers :
          /\ (closePc[p] = "flush" /\ closePc'[p] = "wait") =>
                 (ctxDone /\ \A w \in Workers :
                                wpc[w] \notin {"pull", "send", "sent", "report"})
          /\ (closePc[p] = "wait" /\ closePc'[p] = "close") =>
                 flushRemaining[p] >= 0
          /\ (closePc[p] = "log" /\ closePc'[p] = "ret") =>
                 collector = "exited"]_vars

\* C25: the delivery report collector is started before any send and there
\* is never more than one: at most one handleDeliveryReports goroutine has been
\* started for the producer, and whenever a worker exists, a record has been
\* pulled or Produce has been called, that goroutine has been started.
C25_OneCollectorBeforeSends ==
    /\ started <= 1
    /\ ( \/ \E w \in Workers : wpc[w] # "unborn" \/ call[w].calls > 0
         \/ \E r \in Records : hist[r].pulls > 0
         \/ messagesSent > 0 )
       => (started = 1 /\ collector # "unstarted")

\* Produce was called and the one collector consumed its delivery event.
C25_Witness ==
    /\ started = 1
    /\ \E r \in Records : hist[r].accepts >= 1 /\ hist[r].ackedBy >= 1

\* Detection r is inside a SendDetection call.
InSendDetection(r) == hist[r].pulls >= 1 /\ hist[r].ret = "none"

\* The worker goroutines spawned so far.
Spawned == {w \in Workers : wpc[w] # "unborn"}

\* C26 (as stated): once SendDetectionBatch or StreamFromChannel has been
\* called, exactly workerCount workers have been spawned, and at most
\* workerCount records are in SendDetection at a time.
C26_ExactlyWSpawned ==
    /\ mainPc \in {"wait", "flush", "report", "close"} =>
           Cardinality(Spawned) = workerCount
    /\ Cardinality({r \in Records : InSendDetection(r)}) <= workerCount

\* C26 (amended): StreamFromChannel, and SendDetectionBatch on a non-empty
\* slice, spawn exactly workerCount workers; SendDetectionBatch on an empty
\* slice spawns none; at most workerCount records are in SendDetection at a
\* time.
C26_ExactlyWSpawnedUnlessEmpty ==
    /\ mainPc \in {"wait", "flush", "report", "close"} =>
           Cardinality(Spawned) =
               IF batchMode /\ nRecords = 0 THEN 0 ELSE workerCount
    /\ Cardinality({r \in Records : InSendDetection(r)}) <= workerCount

\* Two workers spawned, each inside SendDetection with a record of its own.
C26_Witness ==
    /\ workerCount = 2 /\ Cardinality(Spawned) = 2
    /\ Cardinality({r \in Records : InSendDetection(r)}) = 2

\* C27: without cancellation and with at least one worker, every record put
\* on the work queue is consumed exactly once: no record is pulled twice, no
\* two workers hold the same record, a record is inside at most one
\* SendDetection call at a time, and when the pool has returned every record
\* has been pulled.
C27_ConsumedExactlyOnce ==
    /\ \A r \in Records : hist[r].pulls <= 1
    /\ \A r \in Records :
          Cardinality({w \in Workers : wrec[w] = r}) <= 1
    /\ \A w \in Workers :
          wpc[w] \in {"send", "sent", "report"} =>
              (wrec[w] \in Records /\ hist[wrec[w]].pulls = 1)
    /\ (workerCount >= 1 /\ mainPc \in {"flush", "report", "close"}) =>
          \A r \in Records : hist[r].pulls = 1

\* The pool of two workers has returned from three records, each pulled once
\* and at least one of them retried.
C27_Witness ==
    /\ workerCount = 2 /\ nRecords = 3 /\ mainPc = "flush"
    /\ \A r \in Records : hist[r].pulls = 1
    /\ rejected

\* The delays of the defaults maxRetries = 5, baseBackoff = 100 ms.
DefaultDelays == <<100, 200, 400, 800, 1600>>

\* C28: the first Produce of a SendDetection call (attempt 0) is preceded by
\* no delay and the n-th retry (1 <= n <= maxRetries) by a delay of exactly
\* baseBackoff * 2^(n-1): 100, 200, 400, 800, 1600 ms with the defaults.
C28_ExponentialDelays ==
    \A w \in Workers :
        LET n == call[w].calls - 1
        IN call[w].calls >= 1 =>
              /\ n <= maxRetries
              /\ n = 0 => call[w].delay = 0
              /\ n >= 1 => /\ call[w].delay = baseBackoff * Pow2(n - 1)
                           /\ call[w].delay = DefaultDelays[n]

\* The last retry has been made, after a delay of 1600 ms.
C28_Witness ==
    \E w \in Workers : call[w].calls = maxRetries + 1 /\ call[w].delay = 1600

\* C29: the counters sent, acked and failed are append-only: no step of the
\* pipeline (SendDetection, the dispatch of a batch or a stream, the collector,
\* Flush, GetMetrics, Close) decreases any of them.
C29_CountersAppendOnly ==
    [][/\ messagesSent' >= messagesSent
       /\ messagesAcked' >= messagesAcked
       /\ messagesFailed' >= messagesFailed]_vars

\* Each of the three counters has been bumped and Close has run to its end.
C29_Witness ==
    /\ messagesSent >= 1 /\ messagesAcked >= 1 /\ messagesFailed >= 1
    /\ closePc["main"] = "ret"

\* C30: with one delivery event per accepted send, a record is counted at most
\* once in acked + failed: never in both, never twice in either.
C30_AtMostOneTerminal ==
    \A r \in Records :
        /\ hist[r].ackedBy + hist[r].failedBy <= 1
        /\ hist[r].events <= hist[r].accepts /\ hist[r].accepts <= 1

\* Of one run's records, one ended acked, one failed by its delivery event
\* and one failed after the last retry.
C30_Witness ==
    \E r1, r2, r3 \in Records :
        /\ hist[r1].ackedBy = 1 /\ hist[r1].failedBy = 0
        /\ hist[r2].failedBy = 1 /\ hist[r2].delivery = "err"
        /\ hist[r3].failedBy = 1 /\ hist[r3].accepts = 0

\* C31: for each event the collector consumes exactly one counter changes: a
\* message event without error adds 1 to acked, one with an error adds 1 to
\* failed, an event that is not a message changes no counter, and sent is
\* never changed by the collector.
C31_CollectorFrame ==
    [][Len(deliveryChan') < Len(deliveryChan) =>
          LET result == Head(deliveryChan)[2]
              dAcked == messagesAcked' - messagesAcked
              dFailed == messagesFailed' - messagesFailed
          IN /\ messagesSent' = messagesSent
             /\ result = "ack" => (dAcked = 1 /\ dFailed = 0)
             /\ result = "err" => (dAcked = 0 /\ dFailed = 1)
             /\ result = "other" => (dAcked = 0 /\ dFailed = 0)]_vars

\* The collector has consumed an acknowledgement, a delivery failure and an
\* event that is not a message.
C31_Witness ==
    /\ messagesAcked = 1 /\ messagesFailed = 1 /\ ignored = 1
    /\ \E r1, r2 \in Records :
          /\ hist[r1].delivery = "ack" /\ Consumed(r1)
          /\ hist[r2].delivery = "err" /\ Consumed(r2)

\* The number of Produce calls that returned success so far.
RECURSIVE SumAccepts(_)
SumAccepts(n) == IF n = 0 THEN 0 ELSE hist[n].accepts + SumAccepts(n - 1)

C33_SnapshotConsistent ==
    \A site \in Sites :
        gm[site] = 6 =>
            snap[site].messages_pending =
                snap[site].messages_sent - snap[site].messages_acked
                    - snap[site].messages_failed

\* C34: nothing is asked of the broker client after it has been closed: once
\* producer.Close() has executed no worker calls Produce and no Flush is
\* issued, however a Close run by the signal goroutine interleaves with the
\* workers and with main.
C34_NoSendAfterClose ==
    [][producerCloses >= 1 =>
          /\ \A w \in Workers : call'[w].calls <= call[w].calls
          /\ flushRemaining' = flushRemaining]_vars

\* C35: after cancellation during streaming StreamFromChannel gets to return,
\* whatever the number of failures so far and whether or not the input is
\* closed: no worker is then blocked for good (a worker stuck on the full
\* errors channel never exits, since the channel is read only after
\* streamWg.Wait()).
C35_StreamReturnsAfterCancel ==
    (~batchMode /\ ctxDone /\ mainPc = "wait" /\ ~exited) =>
        \A w \in Workers : ~Blocked(w)

\* C36: SendDetectionBatch returns nil only if every detection of the batch
\* was accepted by the broker: for every batch and every worker count, a nil
\* result means SendDetection ran for each detection and succeeded.
C36_NilMeansAllAccepted ==
    (batchMode /\ runErr = "nil") =>
        \A r \in Records :
            hist[r].pulls = 1 /\ hist[r].ret = "nil" /\ hist[r].accepts = 1

\* The records whose SendDetection returned an error.
FailedRecords == {r \in Records : hist[r].ret = "err"}

\* C37: when SendDetectionBatch or StreamFromChannel has returned, its result
\* is an error if and only if SendDetection returned an error for at least one
\* record, and the number of errors it reports is the number of such records.
C37_ErrorIffSomeRecordFailed ==
    mainPc \in {"flush", "report", "close"} =>
        /\ runErr \in {"nil", "err"}
        /\ (runErr = "err") <=> (FailedRecords # {})
        /\ errors = Cardinality(FailedRecords)

\* A batch of three returned an error that reports two failed records, the
\* third having been sent.
C37_Witness ==
    /\ batchMode /\ nRecords = 3 /\ mainPc = "flush"
    /\ runErr = "err" /\ errors = 2
    /\ Cardinality(FailedRecords) = 2
    /\ \E r \in Records : hist[r].ret = "nil"

\* C38: a Produce error that is not a kafka.Error is treated as retriable:
\* after such a failure SendDetection goes on to the next attempt, with its
\* backoff, as long as retries are left, and returns an error only when all
\* maxRetries retries are used up; if a later attempt is accepted the call
\* made one attempt and one backoff per failure before it.
C38_UntypedErrorRetried ==
    \A w \in Workers :
        /\ (wpc[w] \in {"send", "report"} /\ lastErr[w] = "other") =>
              /\ call[w].sleeps = call[w].calls - 1
              /\ (wpc[w] = "send" <=> call[w].calls <= maxRetries)
              /\ (wpc[w] = "report" <=> call[w].calls = maxRetries + 1)
        /\ (wpc[w] = "sent" /\ call[w].transient = 0) =>
              /\ call[w].calls = call[w].others + 1
              /\ call[w].sleeps = call[w].others
              /\ call[w].slept = baseBackoff * (Pow2(call[w].others) - 1)

\* Every attempt failed with an error that is not a kafka.Error, up to the
\* last retry.
C38_Witness ==
    \E w \in Workers :
        /\ call[w].transient = 0 /\ call[w].fatal = 0
        /\ wpc[w] = "report" /\ call[w].others = maxRetries + 1
        /\ call[w].sleeps = maxRetries

\* C39: when the serialization of a detection fails, SendDetection returns an
\* error without any send attempt and leaves sent, acked and failed as they
\* were: the detection is never handed to Produce, is counted in no counter,
\* and the step that ends its call changes no counter.
C39_SerializationFailure ==
    /\ \A r \in Records :
          detections[r].Confidence = NaN =>
              /\ hist[r].accepts = 0 /\ hist[r].last = "none"
              /\ hist[r].sentBy = 0 /\ hist[r].ackedBy = 0
              /\ hist[r].failedBy = 0
              /\ (hist[r].pulls = 1 => hist[r].ret = "err")
    /\ \A w \in Workers :
          (wrec[w] \in Records /\ detections[wrec[w]].Confidence = NaN) =>
              (wpc[w] = "report" /\ call[w].calls = 0 /\ call[w].sleeps = 0)
    /\ (\A r \in Records : detections[r].Confidence = NaN) =>
          (messagesSent = 0 /\ messagesAcked = 0 /\ messagesFailed = 0)

\* A batch of one good and one unserializable detection has returned an
\* error: the good one was sent and acknowledged, the other never attempted.
C39_Witness ==
    /\ nRecords = 2 /\ mainPc = "flush" /\ runErr = "err" /\ errors = 1
    /\ \E r1, r2 \in Records :
          /\ detections[r1].Confidence = NaN
          /\ hist[r1].pulls = 1 /\ hist[r1].ret = "err"
          /\ detections[r2].Confidence # NaN /\ hist[r2].ackedBy = 1
    /\ messagesSent = 1 /\ messagesFailed = 0

\* A detection without the fields that differ from call to call: the
\* generated id (IngestedAt is not part of the model's detections).
WithoutID(d) == [f \in DOMAIN d \ {"DetectionID"} |-> d[f]]

\* C40: for the same input file, the detections StreamToChannel puts on the
\* channel are, row for row and in the same order, the detections ReadAll
\* returns, apart from the generated ids, and the two skip the same rows.
C40_SourcesAgree ==
    (csv.done /\ csv.sdone) =>
        /\ csv.sent = csv.kept
        /\ Len(csv.detectionChan) = Len(csv.result.detections)
        /\ \A i \in 1..Len(csv.detectionChan) :
              WithoutID(csv.detectionChan[i]) = WithoutID(csv.result.detections[i])

\* Both readers finished a two-line file whose first line they skipped and
\* whose second row they delivered, under different ids.
C40_Witness ==
    /\ csv.done /\ csv.sdone
    /\ Len(csv.lines) = 2 /\ csv.sent = <<2>> /\ csv.kept = <<2>>
    /\ Len(csv.detectionChan) = 1 /\ Len(csv.result.detections) = 1
    /\ csv.detectionChan[1].DetectionID # csv.result.detections[1].DetectionID

====
